---- MODULE Spec2Model ----
(***************************************************************************)
(* The keycloakify command-line dispatcher (src/bin/main.ts): catalog      *)
(* registration, the fallback router that re-spawns the CLI with the       *)
(* `build` subcommand, the skip predicate that rejects unrecognized        *)
(* options, and the start-keycloak handler with its Keycloak-version gate. *)
(*                                                                         *)
(* A process is a record; `procs` is the chain parent, child, ... created  *)
(* by child_process.spawnSync.  A JavaScript string is the sequence of its *)
(* characters, so that startsWith, length and SemVer parsing are computed. *)
(***************************************************************************)
EXTENDS Integers, Sequences, FiniteSets

VARIABLES procs

vars == <<procs>>

\* ------------------------------------------------------------- bounds
\* Longest raw argument list (after the program name and script path) of
\* the first process.
MaxArgs == 2

\* Longest chain of processes the model follows (parent, child, ...).
MaxDepth == 3

\* A delegated command may end the process itself with a code 2..MaxHandlerExitCode.
MaxHandlerExitCode == 2

\* ------------------------------------------------------------ strings
\* The characters of the string literals that occur in main.ts and in the
\* argument lists the model tries.
Chars(s) ==
  CASE s = "build" -> <<"b", "u", "i", "l", "d">>
    [] s = "start-keycloak" -> <<"s", "t", "a", "r", "t", "-", "k", "e", "y", "c", "l", "o", "a", "k">>
    [] s = "eject-page" -> <<"e", "j", "e", "c", "t", "-", "p", "a", "g", "e">>
    [] s = "add-story" -> <<"a", "d", "d", "-", "s", "t", "o", "r", "y">>
    [] s = "initialize-email-theme" -> <<"i", "n", "i", "t", "i", "a", "l", "i", "z", "e", "-", "e", "m", "a", "i", "l", "-", "t", "h", "e", "m", "e">>
    [] s = "initialize-account-theme" -> <<"i", "n", "i", "t", "i", "a", "l", "i", "z", "e", "-", "a", "c", "c", "o", "u", "n", "t", "-", "t", "h", "e", "m", "e">>
    [] s = "copy-keycloak-resources-to-public" -> <<"c", "o", "p", "y", "-", "k", "e", "y", "c", "l", "o", "a", "k", "-", "r", "e", "s", "o", "u", "r", "c", "e", "s", "-", "t", "o", "-", "p", "u", "b", "l", "i", "c">>
    [] s = "update-kc-gen" -> <<"u", "p", "d", "a", "t", "e", "-", "k", "c", "-", "g", "e", "n">>
    [] s = "postinstall" -> <<"p", "o", "s", "t", "i", "n", "s", "t", "a", "l", "l">>
    [] s = "eject-file" -> <<"e", "j", "e", "c", "t", "-", "f", "i", "l", "e">>
    [] s = "project" -> <<"p", "r", "o", "j", "e", "c", "t">>
    [] s = "p" -> <<"p">>
    [] s = "port" -> <<"p", "o", "r", "t">>
    [] s = "keycloak-version" -> <<"k", "e", "y", "c", "l", "o", "a", "k", "-", "v", "e", "r", "s", "i", "o", "n">>
    [] s = "import" -> <<"i", "m", "p", "o", "r", "t">>
    [] s = "file" -> <<"f", "i", "l", "e">>
    [] s = "--help" -> <<"-", "-", "h", "e", "l", "p">>
    [] s = "-h" -> <<"-", "h">>
    [] s = "--project" -> <<"-", "-", "p", "r", "o", "j", "e", "c", "t">>
    [] s = "--file" -> <<"-", "-", "f", "i", "l", "e">>
    [] s = "--keycloak-version" -> <<"-", "-", "k", "e", "y", "c", "l", "o", "a", "k", "-", "v", "e", "r", "s", "i", "o", "n">>
    [] s = "--foo" -> <<"-", "-", "f", "o", "o">>
    [] s = "-x" -> <<"-", "x">>
    [] s = "foo" -> <<"f", "o", "o">>
    [] s = "x" -> <<"x">>
    [] s = "-" -> <<"-">>
    [] s = "--" -> <<"-", "-">>
    [] s = "26.0.4" -> <<"2", "6", ".", "0", ".", "4">>
    [] s = "not-a-version" -> <<"n", "o", "t", "-", "a", "-", "v", "e", "r", "s", "i", "o", "n">>
    [] s = "1.2.x" -> <<"1", ".", "2", ".", "x">>
    [] s = "26.0.4-rc.1" -> <<"2", "6", ".", "0", ".", "4", "-", "r", "c", ".", "1">>

Digits == {"0", "1", "2", "3", "4", "5", "6", "7", "8", "9"}

\* String.prototype.startsWith("-") of line 330
StartsWithDash(token) == Len(token) >= 1 /\ token[1] = "-"

\* Array.prototype.includes of line 54
Includes(seq, x) == \E j \in 1..Len(seq) : seq[j] = x

\* ------------------------------------------------- JavaScript values
\* keycloakVersion: string | number | undefined (line 86)
Undefined == [type |-> "undefined", num |-> 0, str |-> <<>>]
Num(n) == [type |-> "number", num |-> n, str |-> <<>>]
Str(cs) == [type |-> "string", num |-> 0, str |-> cs]

\* spawnSync's status: number | null (line 332)
StatusNull == [null |-> TRUE, code |-> 0]
StatusCode(n) == [null |-> FALSE, code |-> n]

\* -------------------------------------------------------- SemVer.parse
\* ./tools/SemVer: major.minor.patch with optional pre-release / build
\* metadata; anything else throws.
IndexOfFirst(cs, set) ==
  IF \E j \in 1..Len(cs) : cs[j] \in set
  THEN CHOOSE j \in 1..Len(cs) : cs[j] \in set /\ \A k \in 1..(j - 1) : cs[k] \notin set
  ELSE Len(cs) + 1

SemVerParseThrows(cs) ==
  LET cut == IndexOfFirst(cs, {"-", "+"})
      core == SubSeq(cs, 1, cut - 1)
      dots == {j \in 1..Len(core) : core[j] = "."}
  IN  ~ ( /\ Cardinality(dots) = 2
          /\ \A j \in 1..Len(core) : core[j] \in Digits \cup {"."}
          /\ Len(core) >= 1 /\ core[1] # "." /\ core[Len(core)] # "."
          /\ \A j \in dots : (j + 1) \notin dots
          /\ cut # Len(cs) )

\* ------------------------------------------------------------ catalog
\* The program.command(...) registrations in source order: the command's
\* name, the names its .option(...) calls push to optionsKeys, and the module
\* its handler imports.
Catalog ==
  << [name |-> Chars("build"), options |-> <<>>, module |-> "./keycloakify"],
     [name |-> Chars("start-keycloak"),
      options |-> <<Chars("port"), Chars("keycloak-version"), Chars("import")>>,
      module |-> "./start-keycloak"],
     [name |-> Chars("eject-page"), options |-> <<>>, module |-> "./eject-page"],
     [name |-> Chars("add-story"), options |-> <<>>, module |-> "./add-story"],
     [name |-> Chars("initialize-email-theme"), options |-> <<>>,
      module |-> "./initialize-email-theme"],
     [name |-> Chars("initialize-account-theme"), options |-> <<>>,
      module |-> "./initialize-account-theme"],
     [name |-> Chars("copy-keycloak-resources-to-public"), options |-> <<>>,
      module |-> "./copy-keycloak-resources-to-public"],
     [name |-> Chars("update-kc-gen"), options |-> <<>>, module |-> "./update-kc-gen"],
     [name |-> Chars("postinstall"), options |-> <<>>, module |-> "./postinstall"],
     [name |-> Chars("eject-file"), options |-> <<Chars("file")>>,
      module |-> "./eject-file"] >>

\* The global program.option of lines 34-50 pushes its long and short name.
GlobalOptionNames == <<Chars("project"), Chars("p")>>

\* Variant: the command modules are imported statically, so that registering
\* a command has already loaded its implementation.
ModulesLoadedAtRegistration_Eager(def) == {def.module}

\* Every handler loads its module with a dynamic import inside the handler
\* body (line 77, 138, ...): registering a command loads nothing.
ModulesLoadedAtRegistration(def) == {}

NoCommand == <<>>

\* The catalog entry registered under a name.
CommandDef(name) == CHOOSE def \in {Catalog[j] : j \in 1..Len(Catalog)} : def.name = name

\* ------------------------------------------------------------ process
NoReport == [prefix |-> <<>>, key |-> <<>>]

\* A process as node starts it: `rest` is process.argv without its first two
\* entries (line 326).
NewProc(args) ==
  [ rest |-> args,
    pc |-> "start",
    optionsKeys |-> <<>>,
    catalog |-> <<>>,
    command |-> NoCommand,
    options |-> <<>>,
    keycloakVersion |-> Undefined,
    loaded |-> {},
    invoked |-> <<>>,
    stderr |-> NoReport,
    stdout |-> "",
    status |-> StatusNull,
    exitAt |-> "" ]

\* The tokens the argument lists are drawn from.
Tokens ==
  { Chars("build"), Chars("start-keycloak"), Chars("eject-page"),
    Chars("--help"), Chars("-h"), Chars("--project"), Chars("--file"),
    Chars("--keycloak-version"), Chars("--foo"), Chars("-x"), Chars("foo") }

ArgLists == UNION { [1..n -> Tokens] : n \in 0..MaxArgs }

Init == \E args \in ArgLists : procs = << NewProc(args) >>

\* -------------------------------------------------------- registration
\* lines 34-50
RegisterGlobalOption(i) ==
  /\ procs[i].pc = "start"
  /\ procs' = [procs EXCEPT ![i].optionsKeys = @ \o GlobalOptionNames,
                            ![i].pc = "register"]

\* lines 69-322, one program.command(...).option(...).task(...) chain each
RegisterCommand(i) ==
  /\ procs[i].pc = "register"
  /\ Len(procs[i].catalog) < Len(Catalog)
  /\ LET def == Catalog[Len(procs[i].catalog) + 1]
     IN procs' = [procs EXCEPT
                    ![i].catalog = Append(@, def.name),
                    ![i].optionsKeys = @ \o def.options,
                    ![i].loaded = @ \cup ModulesLoadedAtRegistration(def),
                    ![i].pc = IF Len(procs[i].catalog) + 1 = Len(Catalog)
                              THEN "fallback" ELSE "register"]

\* ----------------------------------------------------- fallback router
\* Variant: the help flags are not exempted.
ShouldFallback_NoHelpExemption(rest) ==
  IF Len(rest) = 0 THEN TRUE ELSE StartsWithDash(rest[1])

\* line 328-331: the condition of the fallback block
ShouldFallback(rest) ==
  IF Len(rest) = 0
  THEN TRUE
  ELSE /\ StartsWithDash(rest[1])
       /\ rest[1] # Chars("--help")
       /\ rest[1] # Chars("-h")

\* Variant: the child is spawned with the original arguments only.
FallbackArgs_NoBuild(rest) == rest

\* line 334: the arguments the re-spawned keycloakify receives
FallbackArgs(rest) == << Chars("build") >> \o rest

\* Variant: status ?? 0
ExitStatusOrOne_ZeroDefault(status) == IF status.null THEN 0 ELSE status.code

\* line 340: status ?? 1
ExitStatusOrOne(status) == IF status.null THEN 1 ELSE status.code

\* lines 326-338: spawnSync starts the child; the parent blocks
FallbackRoute(i) ==
  /\ procs[i].pc = "fallback"
  /\ ShouldFallback(procs[i].rest)
  /\ i = Len(procs)
  /\ Len(procs) < MaxDepth
  /\ procs' = Append([procs EXCEPT ![i].pc = "waiting"],
                     NewProc(FallbackArgs(procs[i].rest)))

\* lines 328-341 with the condition false: the module body ends and the
\* deferred command parsing runs
FallbackPass(i) ==
  /\ procs[i].pc = "fallback"
  /\ ~ ShouldFallback(procs[i].rest)
  /\ procs' = [procs EXCEPT ![i].pc = "dispatch"]

\* line 340: spawnSync has returned, process.exit(status ?? 1)
FallbackExit(i) ==
  /\ procs[i].pc = "waiting"
  /\ i < Len(procs)
  /\ procs[i + 1].pc = "exited"
  /\ procs' = [procs EXCEPT
                 ![i].pc = "exited",
                 ![i].status = StatusCode(ExitStatusOrOne(procs[i + 1].status)),
                 ![i].exitAt = "Fallback"]

\* ------------------------------------------------------------ dispatch
IsHelpFlag(token) == token \in {Chars("--help"), Chars("-h")}

\* The name of a flag token: its text without the one or two leading dashes.
FlagName(token) ==
  IF Len(token) >= 2 /\ token[2] = "-"
  THEN SubSeq(token, 3, Len(token))
  ELSE SubSeq(token, 2, Len(token))

\* The names of the flags supplied after the command name.
SuppliedFlagNames(rest) ==
  { FlagName(rest[j]) : j \in {k \in 2..Len(rest) : StartsWithDash(rest[k])} }

\* Object.keys(argv.options) of line 53: the supplied names, each once, in
\* the order the parser yields (not fixed here).
KeyOrders(names) ==
  { s \in [1..Cardinality(names) -> names] :
      \A a, b \in 1..Cardinality(names) : a # b => s[a] # s[b] }

\* The values --keycloak-version may carry (line 86: string | number).
VersionValues ==
  { Num(26), Str(Chars("26.0.4")), Str(Chars("26.0.4-rc.1")),
    Str(Chars("not-a-version")), Str(Chars("1.2.x")) }

\* Variant: an unmatched first argument selects the first registered command.
SelectCommand_DefaultsToFirst(rest, catalog) ==
  IF Len(rest) >= 1 /\ Includes(catalog, rest[1]) THEN rest[1] ELSE catalog[1]

\* The command whose registered name is the first argument, if any.
SelectCommand(rest, catalog) ==
  IF Len(rest) >= 1 /\ Includes(catalog, rest[1]) THEN rest[1] ELSE NoCommand

\* The parser selects the command named by the first argument and hands its
\* task the supplied options.
DispatchCommand(i) ==
  /\ procs[i].pc = "dispatch"
  /\ SelectCommand(procs[i].rest, procs[i].catalog) # NoCommand
  /\ LET names == SuppliedFlagNames(procs[i].rest)
     IN \E keys \in KeyOrders(names) :
        \E kv \in (IF Chars("keycloak-version") \in names
                   THEN VersionValues ELSE {Undefined}) :
          procs' = [procs EXCEPT
                      ![i].command = SelectCommand(procs[i].rest, procs[i].catalog),
                      ![i].options = keys,
                      ![i].keycloakVersion = kv,
                      ![i].pc = "skip"]

\* No registered command is named, or help is asked for: the parsing layer
\* answers by itself and no task runs.
DispatchNoCommand(i) ==
  /\ procs[i].pc = "dispatch"
  /\ \/ SelectCommand(procs[i].rest, procs[i].catalog) = NoCommand
     \/ \E j \in 1..Len(procs[i].rest) : IsHelpFlag(procs[i].rest[j])
  /\ \E code \in {0, 1} :
       procs' = [procs EXCEPT ![i].pc = "exited",
                              ![i].status = StatusCode(code),
                              ![i].exitAt = "NoCommand"]

\* ------------------------------------------------------ skip predicate
\* Variant: a key is recognized only when the invoked command declares it
\* (or it is the global option).
IsRecognized_PerCommand(key, optionsKeys, command) ==
  \/ Includes(GlobalOptionNames, key)
  \/ Includes(CommandDef(command).options, key)

\* line 54: !optionsKeys.includes(key), negated
IsRecognized(key, optionsKeys, command) == Includes(optionsKeys, key)

\* Variant: findLast instead of find.
UnrecognizedOptionKey_Last(keys, optionsKeys, command) ==
  LET bad == {j \in 1..Len(keys) : ~ Includes(optionsKeys, keys[j])}
  IN IF bad = {}
     THEN [found |-> FALSE, key |-> <<>>]
     ELSE [found |-> TRUE,
           key |-> keys[CHOOSE j \in bad : \A k \in bad : j >= k]]

\* lines 53-55: Object.keys(argv.options).find(...)
UnrecognizedOptionKey(keys, optionsKeys, command) ==
  LET bad == {j \in 1..Len(keys) : ~ IsRecognized(keys[j], optionsKeys, command)}
  IN IF bad = {}
     THEN [found |-> FALSE, key |-> <<>>]
     ELSE [found |-> TRUE,
           key |-> keys[CHOOSE j \in bad : \A k \in bad : j <= k]]

\* line 60: unrecognizedOptionKey.length === 1 ? "-" : "--"
Prefix(key) == IF Len(key) = 1 THEN Chars("-") ELSE Chars("--")

\* lines 52-67
Skip(i) ==
  /\ procs[i].pc = "skip"
  /\ LET u == UnrecognizedOptionKey(procs[i].options, procs[i].optionsKeys,
                                    procs[i].command)
     IN IF u.found
        THEN procs' = [procs EXCEPT
                         ![i].stderr = [prefix |-> Prefix(u.key), key |-> u.key],
                         ![i].pc = "exited",
                         ![i].status = StatusCode(1),
                         ![i].exitAt = "UnrecognizedOption"]
        ELSE procs' = [procs EXCEPT ![i].pc = "handler"]

\* ------------------------------------------------------------- handlers
\* SemVer.parse(keycloakVersion) throws (a value that is no string makes it
\* throw as well)
ParseThrows(kv) == kv.type # "string" \/ SemVerParseThrows(kv.str)

\* Variant: the typeof "number" branch answers true.
IsValidVersion_NumberAccepted(kv) ==
  IF kv.type = "number" THEN "true"
  ELSE IF ParseThrows(kv) THEN "false"
  ELSE "undefined"

\* lines 145-157: the value of the isValidVersion closure, as a JavaScript
\* value
IsValidVersion(kv) ==
  IF kv.type = "number" THEN "false"
  ELSE IF ParseThrows(kv) THEN "false"
  ELSE "undefined"

\* line 159: if (isValidVersion)
Truthy(v) == v = "true"

\* Variant: the `keycloakVersion === undefined` early break is missing.
VersionGateExits_NoUndefinedBreak(kv) ==
  ~ Truthy(IsValidVersion(kv))

\* lines 140-173: whether the validate_keycloak_version block reaches
\* process.exit(1)
VersionGateExits(kv) ==
  /\ kv.type # "undefined"
  /\ ~ Truthy(IsValidVersion(kv))

\* The first statement of every handler: await import(<module>)
\* (lines 77, 138, 196, 210, 224, 238, 253, 268, 282, 315)
HandlerImport(i) ==
  /\ procs[i].pc = "handler"
  /\ procs' = [procs EXCEPT
                 ![i].loaded = @ \cup {CommandDef(procs[i].command).module},
                 ![i].pc = IF procs[i].command = Chars("start-keycloak")
                           THEN "validate" ELSE "invoke"]

\* lines 140-173
ValidateKeycloakVersion(i) ==
  /\ procs[i].pc = "validate"
  /\ IF VersionGateExits(procs[i].keycloakVersion)
     THEN procs' = [procs EXCEPT ![i].stdout = "Invalid Keycloak version",
                                 ![i].pc = "exited",
                                 ![i].status = StatusCode(1),
                                 ![i].exitAt = "InvalidSemVer"]
     ELSE procs' = [procs EXCEPT ![i].pc = "invoke"]

\* await command({ buildContext: getBuildContext(...), cliCommandOptions })
\* (lines 79, 177-184, ...): the delegated command is called
\* (the assert(is<string | undefined>(...)) of line 175 narrows the type only)
InvokeCommand(i) ==
  /\ procs[i].pc = "invoke"
  /\ procs' = [procs EXCEPT
                 ![i].invoked = Append(@, [command |-> procs[i].command,
                                           keycloakVersion |-> procs[i].keycloakVersion]),
                 ![i].pc = "running"]

\* getBuildContext throws before the delegated command is called: the
\* handler rejects and onException (lines 25-28) exits with 1
BuildContextThrows(i) ==
  /\ procs[i].pc = "invoke"
  /\ procs' = [procs EXCEPT ![i].pc = "exited",
                            ![i].status = StatusCode(1),
                            ![i].exitAt = "onException"]

\* The delegated command's promise resolves: the process ends with 0
HandlerResolves(i) ==
  /\ procs[i].pc = "running"
  /\ procs' = [procs EXCEPT ![i].pc = "exited",
                            ![i].status = StatusCode(0),
                            ![i].exitAt = "completed"]

\* The delegated command rejects: onException (lines 25-28) exits with 1
HandlerRejects(i) ==
  /\ procs[i].pc = "running"
  /\ procs' = [procs EXCEPT ![i].pc = "exited",
                            ![i].status = StatusCode(1),
                            ![i].exitAt = "onException"]

\* The delegated command ends the process itself
HandlerExits(i) ==
  /\ procs[i].pc = "running"
  /\ \E code \in 2..MaxHandlerExitCode :
       procs' = [procs EXCEPT ![i].pc = "exited",
                              ![i].status = StatusCode(code),
                              ![i].exitAt = "handlerExit"]

\* A spawned child is ended by a signal: spawnSync reports status null
KillBySignal(i) ==
  /\ i > 1
  /\ i = Len(procs)
  /\ procs[i].pc # "exited"
  /\ procs' = [procs EXCEPT ![i].pc = "exited",
                            ![i].status = StatusNull,
                            ![i].exitAt = "signal"]

\* ---------------------------------------------------------------- spec
Next ==
  \/ \E i \in 1..Len(procs) : RegisterGlobalOption(i)
  \/ \E i \in 1..Len(procs) : RegisterCommand(i)
  \/ \E i \in 1..Len(procs) : FallbackRoute(i)
  \/ \E i \in 1..Len(procs) : FallbackPass(i)
  \/ \E i \in 1..Len(procs) : FallbackExit(i)
  \/ \E i \in 1..Len(procs) : DispatchCommand(i)
  \/ \E i \in 1..Len(procs) : DispatchNoCommand(i)
  \/ \E i \in 1..Len(procs) : Skip(i)
  \/ \E i \in 1..Len(procs) : HandlerImport(i)
  \/ \E i \in 1..Len(procs) : ValidateKeycloakVersion(i)
  \/ \E i \in 1..Len(procs) : InvokeCommand(i)
  \/ \E i \in 1..Len(procs) : BuildContextThrows(i)
  \/ \E i \in 1..Len(procs) : HandlerResolves(i)
  \/ \E i \in 1..Len(procs) : HandlerRejects(i)
  \/ \E i \in 1..Len(procs) : HandlerExits(i)
  \/ \E i \in 1..Len(procs) : KillBySignal(i)

Spec == Init /\ [][Next]_vars

\* Every process keeps running until it exits, and a spawned child ends.
FairSpec == Spec /\ WF_vars(Next)

\* ------------------------------------------------------------- claims
Procs == {procs[i] : i \in 1..Len(procs)}

\* The flag names of the Option Registry as the specification lists them.
RegistryNames ==
  { Chars("project"), Chars("p"), Chars("port"), Chars("keycloak-version"),
    Chars("import"), Chars("file") }

\* The flag names some command of the catalog (or the global option) declares.
DeclaredNames ==
  {GlobalOptionNames[j] : j \in 1..Len(GlobalOptionNames)} \cup
  UNION { {Catalog[c].options[j] : j \in 1..Len(Catalog[c].options)} :
          c \in 1..Len(Catalog) }

\* The flag names declared only by commands other than `command`.
DeclaredOnlyByOthers(command) ==
  { n \in DeclaredNames :
      /\ ~ Includes(GlobalOptionNames, n)
      /\ ~ Includes(CommandDef(command).options, n) }

Supplied(p) == {p.options[j] : j \in 1..Len(p.options)}

\* The task's handler has been entered: the skip predicate returned false.
HandlerEntered(p) ==
  \/ p.pc \in {"handler", "validate", "invoke", "running"}
  \/ p.loaded # {}
  \/ p.exitAt \in {"InvalidSemVer", "onException", "completed", "handlerExit"}

\* The routing rule of the Fallback Router as the specification words it.
RouteRule(rest) ==
  \/ rest = <<>>
  \/ /\ rest # <<>>
     /\ rest[1] # <<>>
     /\ rest[1][1] = "-"
     /\ rest[1] \notin {Chars("--help"), Chars("-h")}

\* C1: start-keycloak with a keycloakVersion string that parses as a semantic
\* version and no unrecognized option does not exit in the version gate, and
\* the delegated command receives the original string.
C1_ValidVersionReachesHandler ==
  \A p \in Procs :
    ( /\ p.command = Chars("start-keycloak")
      /\ p.keycloakVersion.type = "string"
      /\ ~ SemVerParseThrows(p.keycloakVersion.str)
      /\ Supplied(p) \subseteq RegistryNames )
    => /\ p.exitAt # "InvalidSemVer"
       /\ \A j \in 1..Len(p.invoked) :
            p.invoked[j].keycloakVersion = p.keycloakVersion

\* C2: start-keycloak with a keycloakVersion that is a number, or a string
\* SemVer.parse rejects, ends with exit code 1 and the delegated command is
\* never invoked.
C2_InvalidVersionExits ==
  \A p \in Procs :
    ( /\ p.command = Chars("start-keycloak")
      /\ \/ p.keycloakVersion.type = "number"
         \/ /\ p.keycloakVersion.type = "string"
            /\ SemVerParseThrows(p.keycloakVersion.str) )
    => /\ p.invoked = <<>>
       /\ p.pc \in {"skip", "handler", "validate", "exited"}
       /\ p.pc = "exited" =>
            /\ p.exitAt \in {"UnrecognizedOption", "InvalidSemVer"}
            /\ p.status = StatusCode(1)

C2_Witness ==
  \E p \in Procs :
    /\ p.command = Chars("start-keycloak")
    /\ p.keycloakVersion \in {Num(26), Str(Chars("not-a-version"))}
    /\ p.exitAt = "InvalidSemVer"
    /\ p.status = StatusCode(1)

\* C3 (as claimed): a command invoked with a flag declared only by other
\* commands never has its handler run; the run ends in UnrecognizedOption
\* with exit code 1.
C3_ForeignFlagRejected ==
  \A p \in Procs :
    ( /\ p.command # NoCommand
      /\ Supplied(p) \cap DeclaredOnlyByOthers(p.command) # {} )
    => /\ ~ HandlerEntered(p)
       /\ p.pc = "exited" => p.exitAt = "UnrecognizedOption" /\ p.status = StatusCode(1)

\* C3 (amended): the registry is one flat namespace, so a flag declared by
\* any command is recognized under every command: it is never the key
\* UnrecognizedOption reports, and a command whose supplied flags are all
\* declared somewhere in the catalog is not ended by UnrecognizedOption.
C3_ForeignFlagAccepted ==
  \A p \in Procs :
    /\ p.exitAt = "UnrecognizedOption" => p.stderr.key \notin DeclaredNames
    /\ (p.command # NoCommand /\ Supplied(p) \subseteq DeclaredNames)
         => p.exitAt # "UnrecognizedOption"

C3_Witness ==
  \E p \in Procs :
    /\ p.command = Chars("eject-page")
    /\ p.options = << Chars("file") >>
    /\ p.loaded = {"./eject-page"}
    /\ p.invoked # <<>>

\* C4: the skip predicate ends the process with exit code 1 exactly when a
\* supplied key is absent from the Option Registry, reporting the first
\* absent key in iteration order; otherwise it returns false and the handler
\* proceeds.
C4_SkipExitsIffUnrecognized ==
  \A p \in Procs :
    LET absent == {j \in 1..Len(p.options) : p.options[j] \notin RegistryNames}
    IN /\ HandlerEntered(p) => absent = {}
       /\ p.exitAt = "UnrecognizedOption" =>
            /\ absent # {}
            /\ p.status = StatusCode(1)
            /\ \E j \in absent :
                 /\ \A k \in absent : j <= k
                 /\ p.stderr.key = p.options[j]
       /\ (p.pc = "skip" /\ absent = {}) => p.exitAt = ""

C4_Witness ==
  \E p \in Procs :
    /\ p.exitAt = "UnrecognizedOption"
    /\ Len(p.options) = 2
    /\ Supplied(p) \cap RegistryNames = {}
    /\ p.stderr.key = p.options[1]

\* C5: the Fallback Router routes exactly when rest is empty or rest[0]
\* starts with a dash and is neither --help nor -h, and the child then
\* receives build followed by the original tokens in order.
C5_RoutesIffRule ==
  \A i \in 1..Len(procs) :
    /\ i < Len(procs) =>
         /\ RouteRule(procs[i].rest)
         /\ procs[i + 1].rest = << Chars("build") >> \o procs[i].rest
    /\ ( \/ procs[i].pc \in {"dispatch", "skip", "handler", "validate", "invoke", "running"}
         \/ procs[i].exitAt \notin {"", "signal", "Fallback"} )
         => ~ RouteRule(procs[i].rest)
    /\ procs[i].pc = "waiting" \/ procs[i].exitAt = "Fallback" => i < Len(procs)

C5_Witness ==
  /\ Len(procs) = 2
  /\ procs[1].rest = << Chars("--project"), Chars("foo") >>
  /\ procs[2].rest = << Chars("build"), Chars("--project"), Chars("foo") >>
  /\ procs[2].invoked # <<>>

\* C6: a parent that routed exits only after its child has ended, with the
\* child's exit status, or with 1 when the child has no status.
C6_ParentExitsWithChildStatus ==
  \A i \in 1..Len(procs) :
    procs[i].exitAt = "Fallback" =>
      /\ i < Len(procs)
      /\ procs[i + 1].pc = "exited"
      /\ ~ procs[i].status.null
      /\ procs[i + 1].status.null => procs[i].status.code = 1
      /\ ~ procs[i + 1].status.null => procs[i].status.code = procs[i + 1].status.code

C6_Witness ==
  /\ Len(procs) = 2
  /\ procs[1].exitAt = "Fallback"
  /\ procs[2].status.null
  /\ procs[1].status = StatusCode(1)

\* C7: start-keycloak without --keycloak-version and without unrecognized
\* option skips the version check, does not exit, and passes
\* keycloakVersion undefined to the delegated command.
C7_AbsentVersionProceeds ==
  \A p \in Procs :
    ( /\ p.command = Chars("start-keycloak")
      /\ p.keycloakVersion = Undefined
      /\ Supplied(p) \subseteq RegistryNames )
    => /\ p.exitAt \notin {"InvalidSemVer", "UnrecognizedOption"}
       /\ p.pc = "running" =>
            p.invoked = << [command |-> Chars("start-keycloak"),
                            keycloakVersion |-> Undefined] >>
       /\ \A j \in 1..Len(p.invoked) : p.invoked[j].keycloakVersion = Undefined

C7_Witness ==
  \E p \in Procs :
    /\ p.command = Chars("start-keycloak")
    /\ p.keycloakVersion = Undefined
    /\ p.pc = "running"
    /\ Len(p.invoked) = 1

\* C8: a process invokes at most one delegated handler, that of the command
\* its invocation names, and none when it ends through UnrecognizedOption,
\* the version gate or fallback routing.
C8_AtMostOneHandler ==
  \A p \in Procs :
    /\ Len(p.invoked) <= 1
    /\ p.invoked # <<>> =>
         /\ p.rest # <<>>
         /\ p.invoked[1].command = p.rest[1]
    /\ p.exitAt \in {"UnrecognizedOption", "InvalidSemVer", "Fallback"} => p.invoked = <<>>
    /\ p.pc = "waiting" => p.invoked = <<>>

C8_Witness ==
  /\ Len(procs) = 2
  /\ procs[1].exitAt = "Fallback"
  /\ procs[1].invoked = <<>>
  /\ Len(procs[2].invoked) = 1
  /\ procs[2].invoked[1].command = Chars("build")

\* C9 (as claimed): a command's module is loaded only after the command is
\* selected and all of its option validation has passed; for start-keycloak
\* the load never precedes the Keycloak-version check.
C9_LoadAfterAllValidation ==
  \A p \in Procs :
    p.loaded # {} =>
      /\ p.command # NoCommand
      /\ p.pc # "validate"
      /\ p.exitAt \notin {"UnrecognizedOption", "InvalidSemVer"}

\* C9 (amended): a command's module is loaded only after the command is
\* selected and the skip predicate has passed, never during registration or
\* fallback routing, and it is that command's module; for start-keycloak the
\* module is already loaded when the Keycloak-version check runs.
C9_LoadAfterSkipOnly ==
  \A p \in Procs :
    /\ p.loaded # {} =>
         /\ p.command # NoCommand
         /\ p.loaded = {CommandDef(p.command).module}
         /\ Supplied(p) \subseteq RegistryNames
         /\ p.pc \notin {"start", "register", "fallback", "waiting", "dispatch", "skip"}
         /\ p.exitAt \notin {"UnrecognizedOption", "Fallback", "NoCommand"}
    /\ p.pc = "validate" \/ p.exitAt = "InvalidSemVer" => p.loaded = {"./start-keycloak"}

C9_Witness ==
  \E p \in Procs :
    /\ p.exitAt = "InvalidSemVer"
    /\ p.loaded = {"./start-keycloak"}
    /\ p.keycloakVersion = Str(Chars("not-a-version"))

\* C10: a spawned process receives build first and never routes again, so
\* the chain of re-spawns has depth at most one, and the original invocation
\* eventually terminates.
C10_FallbackBounded ==
  /\ [](/\ Len(procs) <= 2
        /\ \A i \in 2..Len(procs) :
             /\ procs[i].rest # <<>>
             /\ procs[i].rest[1] = Chars("build")
             /\ ~ RouteRule(procs[i].rest)
             /\ procs[i].pc \notin {"waiting"})
  /\ <>(procs[1].pc = "exited")

C10_Witness ==
  /\ Len(procs) = 2
  /\ procs[2].pc = "exited"
  /\ procs[1].pc = "exited"
  /\ procs[1].exitAt = "Fallback"

====
